---- MODULE Spec2Model ----
(***************************************************************************)
(* Model of the msixvcdl express service: the token store (tokenService),  *)
(* the identity calls (authService), the /callback and /:identifier route  *)
(* handlers (routes/msixvc) and the package cache (cacheService).          *)
(*                                                                         *)
(* A handler is cut at its awaits on network or database calls: each       *)
(* action is the synchronous code that runs between two such awaits.       *)
(* Times are milliseconds, as Date.now() gives them.                       *)
(***************************************************************************)
EXTENDS Integers, Sequences, FiniteSets, TLC

\* ------------------------------------------------------------------ bounds
NumSlots == 2
MaxStarts == 2
MaxTicks == 1
MaxTok == 3
MaxExpiresIn == 2
MaxXstsLife == 1
MaxLmd == 1
MaxFiles == 1

\* ------------------------------------------------------- program constants
MsPerSecond == 1000
bufferTime == 5 * 60 * 1000

Slots == 1..NumSlots
StartTime == MsPerSecond
Times == {StartTime + k * MsPerSecond : k \in 0..MaxTicks}

VARIABLES
    file,      \* token.json: the persisted bundle, or NoFile
    cache,     \* the package_cache table: its rows in rowid order
    cacheHistory,  \* CONFIG.cacheHistory
    now,       \* Date.now()
    issued,    \* number of access tokens the identity service has issued
    starts,    \* number of requests received so far
    pc,        \* per slot: the await the handler is suspended at
    loc,       \* per slot: the handler's local variables
    log,       \* per slot: the calls the request has made, in order
    outcome,   \* per slot: the response sent
    probe      \* a function call on its own: its arguments and its result

vars == <<file, cache, cacheHistory, now, issued, starts, pc, loc, log, outcome, probe>>

\* ------------------------------------------------------------------ values
\* A falsy JavaScript value (undefined, null, "", 0) is 0; JSON.stringify
\* drops undefined fields and the code only ever tests truthiness.
Truthy(v) == v # 0

NullXsts == [Token |-> 0, NotAfter |-> 0]
NoFile == [exists |-> FALSE]

BundleFields == {"access_token", "refresh_token", "expires_in", "expires_at",
                 "scope", "userToken", "xsts", "refreshed"}

EmptyBundle ==
    [access_token |-> 0, refresh_token |-> 0, expires_in |-> 0, expires_at |-> 0,
     scope |-> 0, userToken |-> 0, xsts |-> NullXsts, refreshed |-> 0]

\* ---------------------------------------------------------- tokenService
loadTokens == file

\* as saveTokens, with expires_in taken for milliseconds
saveTokensInMilliseconds(data, t) ==
    IF Truthy(data.expires_in)
    THEN [data EXCEPT !.expires_at = t + data.expires_in]
    ELSE data

saveTokens(data, t) ==
    IF Truthy(data.expires_in)
    THEN [data EXCEPT !.expires_at = t + data.expires_in * MsPerSecond]
    ELSE data

\* as needsTokenRefresh, with the five-minute buffer of needsXboxTokenRefresh
needsTokenRefreshWithBuffer(tokens, t) ==
    IF ~Truthy(tokens.access_token) THEN TRUE
    ELSE IF Truthy(tokens.expires_at) /\ t >= tokens.expires_at - bufferTime THEN TRUE
    ELSE FALSE

\* as needsTokenRefresh, but taking a bundle without expires_at as expired
needsTokenRefreshUnknownExpiry(tokens, t) ==
    IF ~Truthy(tokens.access_token) THEN TRUE
    ELSE IF ~Truthy(tokens.expires_at) THEN TRUE
    ELSE t >= tokens.expires_at

needsTokenRefresh(tokens, t) ==
    IF ~Truthy(tokens.access_token) THEN TRUE
    ELSE IF Truthy(tokens.expires_at) /\ t >= tokens.expires_at THEN TRUE
    ELSE FALSE

\* JavaScript numbers with NaN: new Date(s).getTime() is NaN for a string
\* that is no date, NaN - x is NaN and every comparison with NaN is false.
NaN == [nan |-> TRUE, v |-> 0]
Num(v) == [nan |-> FALSE, v |-> v]
InvalidDate == -1
DateGetTime(s) == IF s = InvalidDate THEN NaN ELSE Num(s)
NumMinus(a, b) == IF a.nan \/ b.nan THEN NaN ELSE Num(a.v - b.v)
NumGe(a, b) == ~a.nan /\ ~b.nan /\ a.v >= b.v

\* as needsXboxTokenRefresh, without the buffer
needsXboxTokenRefreshNoBuffer(xstsToken, t) ==
    IF xstsToken = NullXsts \/ ~Truthy(xstsToken.NotAfter) THEN TRUE
    ELSE NumGe(Num(t), DateGetTime(xstsToken.NotAfter))

needsXboxTokenRefresh(xstsToken, t) ==
    IF xstsToken = NullXsts \/ ~Truthy(xstsToken.NotAfter) THEN TRUE
    ELSE LET expiryDate == DateGetTime(xstsToken.NotAfter)
         IN  NumGe(Num(t), NumMinus(expiryDate, Num(bufferTime)))

\* as SpreadResponse, but refresh_token: newTokenData.refresh_token
SpreadResponseCopiesRefreshToken(tokens, newTokenData) ==
    [f \in BundleFields |->
        IF f \in newTokenData.has \/ f = "refresh_token"
        THEN newTokenData.val[f] ELSE tokens[f]]

\* { ...tokens, ...newTokenData }
SpreadResponse(tokens, newTokenData) ==
    [f \in BundleFields |->
        IF f \in newTokenData.has THEN newTokenData.val[f] ELSE tokens[f]]

\* as MergeRefresh, without userToken: null, xsts: null
MergeRefreshKeepsDerived(tokens, newTokenData) ==
    SpreadResponse(tokens, newTokenData)

\* as MergeRefresh, without userToken: null
MergeRefreshKeepsUserToken(tokens, newTokenData) ==
    [SpreadResponse(tokens, newTokenData) EXCEPT !.xsts = NullXsts]

\* { ...tokens, ...newTokenData, userToken: null, xsts: null }
MergeRefresh(tokens, newTokenData) ==
    [SpreadResponse(tokens, newTokenData) EXCEPT !.userToken = 0, !.xsts = NullXsts]

\* ----------------------------------------------------------- cacheService
ProductIds == {"9wzdncrfj3tj", "9WZDNCRFJ3TJ"}

\* as toUpperCase, leaving the letters as they are
toUpperCaseKeepsCase(s) == s

\* productId.toUpperCase()
toUpperCase(s) == IF s = "9wzdncrfj3tj" THEN "9WZDNCRFJ3TJ" ELSE s

NumGt(a, b) == ~a.nan /\ ~b.nan /\ a.v > b.v

NoData == [contentId |-> 0, files |-> 0]

\* WHERE product_id = ? ORDER BY cached_at DESC LIMIT 1: the rows the
\* query may return (rows with equal cached_at are in no stated order)
SelectLatest(rows, productId) ==
    LET mine == {i \in DOMAIN rows : rows[i].product_id = productId}
    IN  {rows[i] : i \in {i \in mine :
                            \A j \in mine : rows[j].cached_at <= rows[i].cached_at}}

\* as CachedData, with currentDate >= cachedDate
CachedDataExpiresOnEqual(row, lastModifiedDate) ==
    LET cachedDate == DateGetTime(row.last_modified_date)
        currentDate == DateGetTime(lastModifiedDate)
    IN  IF NumGe(currentDate, cachedDate) THEN NoData
        ELSE [contentId |-> row.content_id, files |-> row.files_data]

\* the db.get callback of getCachedPackageData for the row it was given
CachedData(row, lastModifiedDate) ==
    LET cachedDate == DateGetTime(row.last_modified_date)
        currentDate == DateGetTime(lastModifiedDate)
    IN  IF NumGt(currentDate, cachedDate) THEN NoData
        ELSE [contentId |-> row.content_id, files |-> row.files_data]

\* the values getCachedPackageData may resolve to
getCachedPackageData(rows, productId, lastModifiedDate) ==
    LET found == SelectLatest(rows, toUpperCase(productId))
    IN  IF found = {} THEN {NoData}
        ELSE {CachedData(row, lastModifiedDate) : row \in found}

\* DELETE FROM package_cache WHERE product_id = ?
DeleteRows(rows, productId) ==
    SelectSeq(rows, LAMBDA row : row.product_id # toUpperCase(productId))

\* INSERT INTO package_cache ...; cached_at defaults to CURRENT_TIMESTAMP,
\* which has a resolution of one second
InsertRow(rows, productId, contentId, lastModifiedDate, files, t) ==
    Append(rows, [product_id |-> toUpperCase(productId), content_id |-> contentId,
                  last_modified_date |-> lastModifiedDate, files_data |-> files,
                  cached_at |-> t \div MsPerSecond])

\* ----------------------------------------------------------- authService
\* What the identity endpoints can answer.  An access token is named by
\* the order of its issue; a user token names the access token it was
\* issued for, and a security token the user token it was issued for.
RespOptional == {"refresh_token", "expires_in"}

TokenResponse(n, h, e) ==
    [has |-> h,
     val |-> [EmptyBundle EXCEPT
                !.access_token = n,
                !.refresh_token = IF "refresh_token" \in h THEN n ELSE 0,
                !.expires_in = IF "expires_in" \in h THEN e ELSE 0,
                !.scope = IF "scope" \in h THEN n ELSE 0,
                !.userToken = IF "userToken" \in h THEN n ELSE 0,
                !.xsts = IF "xsts" \in h THEN [Token |-> n, NotAfter |-> 0]
                         ELSE NullXsts]]

\* response.json() of the token endpoint for the n-th issued access token
TokenResponses(n) ==
    {TokenResponse(n, {"access_token"} \cup h, e) :
        h \in SUBSET RespOptional, e \in 1..MaxExpiresIn}

\* response.json() of a code exchange: the same, or a body with an empty
\* access_token, or with none
ExchangeResponses(n) ==
    TokenResponses(n)
    \cup {TokenResponse(0, {"access_token"}, 1),
          TokenResponse(0, {"refresh_token", "expires_in"}, 1)}

\* the same, or one that carries further fields
RefreshResponses(n) ==
    TokenResponses(n)
    \cup {TokenResponse(n, {"access_token", "scope", "userToken", "xsts"}, 1)}

NoTokenData == [has |-> {}, val |-> EmptyBundle]

\* res.json() of authenticateXASU(accessToken)
authenticateXASU(accessToken) == accessToken

\* res.json() of authenticateXSTS(userToken): NotAfter is the server's choice
XstsResponses(userToken, t) ==
    {[Token |-> userToken, NotAfter |-> na] :
        na \in {0} \cup {t + bufferTime + d * MsPerSecond : d \in 1..MaxXstsLife}}

\* ------------------------------------------------------------- handlers
NoLocals ==
    [kind |-> "none", tokens |-> EmptyBundle, tokenData |-> NoTokenData,
     access_token |-> 0, userToken |-> 0, xsts |-> NullXsts,
     identifier |-> "", isProductId |-> FALSE, contentId |-> 0,
     lastModifiedDate |-> 0, files |-> 0]

\* res.status(...).send/json(...): the request is answered
Respond(r, l, what, calls) ==
    /\ pc' = [pc EXCEPT ![r] = "done"]
    /\ loc' = [loc EXCEPT ![r] = [NoLocals EXCEPT !.kind = l.kind, !.files = l.files]]
    /\ outcome' = [outcome EXCEPT ![r] = what]
    /\ log' = [log EXCEPT ![r] = calls]

\* the handler suspends at an await
Await(r, at, l, calls) ==
    /\ pc' = [pc EXCEPT ![r] = at]
    /\ loc' = [loc EXCEPT ![r] = l]
    /\ outcome' = [outcome EXCEPT ![r] = "none"]
    /\ log' = [log EXCEPT ![r] = calls]

\* lines 152-205 of the /:identifier handler, entered with a usable xsts
\* as StartFetch, but looking in the cache for every product id, with or
\* without a LastModifiedDate
StartFetchAlwaysCaches(r, l, xsts, calls) ==
    LET l2 == [l EXCEPT !.xsts = xsts, !.tokens = EmptyBundle, !.userToken = 0]
    IN  IF l.isProductId
        THEN Await(r, "cacheGet", l2, calls \o <<"cacheGet">>)
        ELSE Await(r, "fetch", l2, calls \o <<"package">>)

StartFetch(r, l, xsts, calls) ==
    LET l2 == [l EXCEPT !.xsts = xsts, !.tokens = EmptyBundle, !.userToken = 0]
    IN  IF l.isProductId /\ Truthy(l.lastModifiedDate)
        THEN Await(r, "cacheGet", l2, calls \o <<"cacheGet">>)
        ELSE Await(r, "fetch", l2, calls \o <<"package">>)

\* as CheckXsts, with if (!xsts) alone: needsXboxTokenRefresh is not asked
CheckXstsNoExpiryCheck(r, l, tokens, calls) ==
    IF tokens.xsts = NullXsts
    THEN Await(r, "xasu", [l EXCEPT !.tokens = tokens], calls \o <<"xasu">>)
    ELSE StartFetch(r, l, tokens.xsts, calls)

\* lines 134-150: use the stored xsts or start the re-authentication
CheckXsts(r, l, tokens, calls) ==
    IF tokens.xsts = NullXsts \/ needsXboxTokenRefresh(tokens.xsts, now)
    THEN Await(r, "xasu", [l EXCEPT !.tokens = tokens], calls \o <<"xasu">>)
    ELSE StartFetch(r, l, tokens.xsts, calls)

\* as refreshTokensIfNeeded, without if (!tokens): tokens.access_token
\* throws and the handler's catch answers 500
refreshTokensIfNeededNoNullCheck(r, l, calls) ==
    LET tokens == loadTokens
        c == calls \o <<IF tokens = NoFile THEN "load_none" ELSE "load">>
    IN  IF tokens = NoFile
        THEN Respond(r, l, "error", c)
        ELSE IF needsTokenRefresh(tokens, now)
        THEN IF ~Truthy(tokens.refresh_token)
             THEN Respond(r, l, "not_authenticated", c)
             ELSE Await(r, "refresh", [l EXCEPT !.tokens = tokens],
                        c \o <<"refresh">>)
        ELSE CheckXsts(r, l, tokens, c)

\* as refreshTokensIfNeeded, without if (!tokens.refresh_token)
refreshTokensIfNeededNoRefreshTokenCheck(r, l, calls) ==
    LET tokens == loadTokens
        c == calls \o <<IF tokens = NoFile THEN "load_none" ELSE "load">>
    IN  IF tokens = NoFile
        THEN Respond(r, l, "not_authenticated", c)
        ELSE IF needsTokenRefresh(tokens, now)
        THEN Await(r, "refresh", [l EXCEPT !.tokens = tokens], c \o <<"refresh">>)
        ELSE CheckXsts(r, l, tokens, c)

\* refreshTokensIfNeeded up to its await, and the handler's lines 127-150
\* when it returns without one
refreshTokensIfNeeded(r, l, calls) ==
    LET tokens == loadTokens
        c == calls \o <<IF tokens = NoFile THEN "load_none" ELSE "load">>
    IN  IF tokens = NoFile
        THEN Respond(r, l, "not_authenticated", c)
        ELSE IF needsTokenRefresh(tokens, now)
        THEN IF ~Truthy(tokens.refresh_token)
             THEN Respond(r, l, "not_authenticated", c)
             ELSE Await(r, "refresh", [l EXCEPT !.tokens = tokens],
                        c \o <<"refresh">>)
        ELSE CheckXsts(r, l, tokens, c)

\* a request arrives and takes the lowest free slot
Fresh(r) ==
    /\ pc[r] \in {"idle", "done"}
    /\ \A q \in 1..r - 1 : pc[q] \notin {"idle", "done"}
    /\ starts < MaxStarts
    /\ starts' = starts + 1

PackageLocals == [NoLocals EXCEPT !.kind = "package"]
ContentLocals == [PackageLocals EXCEPT !.identifier = "content-id", !.contentId = 1]
CallbackLocals == [NoLocals EXCEPT !.kind = "callback"]

\* GET /:identifier with a content id
StartContentId(r) ==
    /\ Fresh(r)
    /\ refreshTokensIfNeeded(r, ContentLocals, <<>>)
    /\ UNCHANGED <<probe, file, cache, cacheHistory, now, issued>>

\* GET /:identifier with neither a content id nor a product id
StartInvalid(r) ==
    /\ Fresh(r)
    /\ Respond(r, PackageLocals, "invalid_identifier", <<>>)
    /\ UNCHANGED <<probe, file, cache, cacheHistory, now, issued>>

\* as RefreshOk, but saving only if token.json is still the bundle that
\* was loaded
RefreshOkUnlessSuperseded(r) ==
    /\ pc[r] = "refresh"
    /\ issued < MaxTok
    /\ issued' = issued + 1
    /\ \E newTokenData \in RefreshResponses(issued + 1) :
         LET updatedTokens == saveTokens(MergeRefresh(loc[r].tokens, newTokenData), now)
             tokens == [updatedTokens EXCEPT !.refreshed = 1]
         IN  /\ file' = IF file = loc[r].tokens THEN updatedTokens ELSE file
             /\ CheckXsts(r, [loc[r] EXCEPT !.tokenData = newTokenData], tokens,
                          log[r] \o <<"refresh_ok", "save">>)
    /\ UNCHANGED <<probe, cache, cacheHistory, now, starts>>

\* refreshAccessToken answered: lines 82-99 of refreshTokensIfNeeded, then
\* lines 128-150 of the handler
\* as RefreshOk, but returning the bundle that was loaded instead of the one
\* that was saved
RefreshOkReturnsLoaded(r) ==
    /\ pc[r] = "refresh"
    /\ issued < MaxTok
    /\ issued' = issued + 1
    /\ \E newTokenData \in RefreshResponses(issued + 1) :
         LET updatedTokens == saveTokens(MergeRefresh(loc[r].tokens, newTokenData), now)
         IN  /\ file' = updatedTokens
             /\ CheckXsts(r, [loc[r] EXCEPT !.tokenData = newTokenData], loc[r].tokens,
                          log[r] \o <<"refresh_ok", "save">>)
    /\ UNCHANGED <<probe, cache, cacheHistory, now, starts>>

RefreshOk(r) ==
    /\ pc[r] = "refresh"
    /\ issued < MaxTok
    /\ issued' = issued + 1
    /\ \E newTokenData \in RefreshResponses(issued + 1) :
         LET updatedTokens == saveTokens(MergeRefresh(loc[r].tokens, newTokenData), now)
             tokens == [updatedTokens EXCEPT !.refreshed = 1]
         IN  /\ file' = updatedTokens
             /\ CheckXsts(r, [loc[r] EXCEPT !.tokenData = newTokenData], tokens,
                          log[r] \o <<"refresh_ok", "save">>)
    /\ UNCHANGED <<probe, cache, cacheHistory, now, starts>>

\* as RefreshFail, but going on with the tokens that were loaded
RefreshFailUsesStale(r) ==
    /\ pc[r] = "refresh"
    /\ CheckXsts(r, loc[r], loc[r].tokens, log[r] \o <<"refresh_fail">>)
    /\ UNCHANGED <<probe, file, cache, cacheHistory, now, issued, starts>>

\* refreshAccessToken threw: lines 96-99, then lines 128-132 of the handler
RefreshFail(r) ==
    /\ pc[r] = "refresh"
    /\ Respond(r, loc[r], "not_authenticated", log[r] \o <<"refresh_fail">>)
    /\ UNCHANGED <<probe, file, cache, cacheHistory, now, issued, starts>>

\* authenticateXASU answered inside authenticateXboxLive (re-authentication)
\* as XasuOk, but handing authenticateXSTS the user token of the loaded
\* bundle instead of the one just obtained
XasuOkKeepsStoredUserToken(r) ==
    /\ pc[r] = "xasu"
    /\ Await(r, "xsts",
             [loc[r] EXCEPT !.userToken = loc[r].tokens.userToken,
                            !.tokenData = NoTokenData],
             log[r] \o <<"xasu_ok", "xsts">>)
    /\ UNCHANGED <<probe, file, cache, cacheHistory, now, issued, starts>>

XasuOk(r) ==
    /\ pc[r] = "xasu"
    /\ Await(r, "xsts",
             [loc[r] EXCEPT !.userToken = authenticateXASU(loc[r].tokens.access_token),
                            !.tokenData = NoTokenData],
             log[r] \o <<"xasu_ok", "xsts">>)
    /\ UNCHANGED <<probe, file, cache, cacheHistory, now, issued, starts>>

\* as XasuFail, but going on to the lookup with the xsts that was stored
XasuFailProceeds(r) ==
    /\ pc[r] = "xasu"
    /\ StartFetch(r, loc[r], loc[r].tokens.xsts, log[r] \o <<"xasu_fail">>)
    /\ UNCHANGED <<probe, file, cache, cacheHistory, now, issued, starts>>

XasuFail(r) ==
    /\ pc[r] = "xasu"
    /\ Respond(r, loc[r], "xbox_auth_failed", log[r] \o <<"xasu_fail">>)
    /\ UNCHANGED <<probe, file, cache, cacheHistory, now, issued, starts>>

\* authenticateXSTS answered: lines 140-143 of the handler
\* as XstsOk, but going on without saveTokens(tokens)
XstsOkWithoutSave(r) ==
    /\ pc[r] = "xsts"
    /\ \E xsts \in XstsResponses(loc[r].userToken, now) :
         StartFetch(r, loc[r], xsts, log[r] \o <<"xsts_ok">>)
    /\ UNCHANGED <<probe, file, cache, cacheHistory, now, issued, starts>>

XstsOk(r) ==
    /\ pc[r] = "xsts"
    /\ \E xsts \in XstsResponses(loc[r].userToken, now) :
         LET tokens == [loc[r].tokens EXCEPT !.userToken = loc[r].userToken,
                                             !.xsts = xsts]
         IN  /\ file' = saveTokens(tokens, now)
             /\ StartFetch(r, loc[r], xsts, log[r] \o <<"xsts_ok", "save">>)
    /\ UNCHANGED <<probe, cache, cacheHistory, now, issued, starts>>

\* as XstsFail, but going on with the xsts that was stored
XstsFailProceeds(r) ==
    /\ pc[r] = "xsts"
    /\ StartFetch(r, loc[r], loc[r].tokens.xsts, log[r] \o <<"xsts_fail">>)
    /\ UNCHANGED <<probe, file, cache, cacheHistory, now, issued, starts>>

\* authenticateXSTS threw: lines 144-148 of the handler
XstsFail(r) ==
    /\ pc[r] = "xsts"
    /\ Respond(r, loc[r], "xbox_auth_failed", log[r] \o <<"xsts_fail">>)
    /\ UNCHANGED <<probe, file, cache, cacheHistory, now, issued, starts>>

\* GET /:identifier with a product id: fetchProductsData is called
StartProductId(r, ids) ==
    /\ Fresh(r)
    /\ \E id \in ids :
         Await(r, "catalog",
               [PackageLocals EXCEPT !.identifier = id, !.isProductId = TRUE],
               <<"catalog">>)
    /\ UNCHANGED <<probe, file, cache, cacheHistory, now, issued>>

\* fetchProductsData threw (lines 112-118)
CatalogFail(r) ==
    /\ pc[r] = "catalog"
    /\ Respond(r, loc[r], "catalog_failed", log[r] \o <<"catalog_fail">>)
    /\ UNCHANGED <<probe, file, cache, cacheHistory, now, issued, starts>>

\* no products data, or no content id in it (lines 92-106)
CatalogNotFound(r) ==
    /\ pc[r] = "catalog"
    /\ Respond(r, loc[r], "product_not_found", log[r] \o <<"catalog_none">>)
    /\ UNCHANGED <<probe, file, cache, cacheHistory, now, issued, starts>>

\* products data with a content id, with or without a LastModifiedDate
CatalogOk(r) ==
    /\ pc[r] = "catalog"
    /\ \E lmd \in 0..MaxLmd :
         refreshTokensIfNeeded(r, [loc[r] EXCEPT !.contentId = 1,
                                                 !.lastModifiedDate = lmd],
                               log[r] \o <<"catalog_ok">>)
    /\ UNCHANGED <<probe, file, cache, cacheHistory, now, issued, starts>>

\* as CacheGetDone, but fetching the package on a hit as well
CacheGetDoneFetchesOnHit(r) ==
    /\ pc[r] = "cacheGet"
    /\ \E cachedData \in getCachedPackageData(cache, loc[r].identifier,
                                              loc[r].lastModifiedDate) :
         IF cachedData # NoData
         THEN Await(r, "fetchMiss", loc[r], log[r] \o <<"cache_hit", "package">>)
         ELSE Await(r, "fetchMiss", loc[r], log[r] \o <<"cache_miss", "package">>)
    /\ UNCHANGED <<probe, file, cache, cacheHistory, now, issued, starts>>

\* getCachedPackageData answered (lines 159-170)
CacheGetDone(r) ==
    /\ pc[r] = "cacheGet"
    /\ \E cachedData \in getCachedPackageData(cache, loc[r].identifier,
                                              loc[r].lastModifiedDate) :
         IF cachedData # NoData
         THEN Respond(r, [loc[r] EXCEPT !.files = cachedData.files], "ok",
                      log[r] \o <<"cache_hit">>)
         ELSE Await(r, "fetchMiss", loc[r], log[r] \o <<"cache_miss", "package">>)
    /\ UNCHANGED <<probe, file, cache, cacheHistory, now, issued, starts>>

\* getCachedPackageData rejected: the fallback of lines 186-189
CacheGetFail(r) ==
    /\ pc[r] = "cacheGet"
    /\ Await(r, "fetchFallback", loc[r], log[r] \o <<"cache_fail", "package">>)
    /\ UNCHANGED <<probe, file, cache, cacheHistory, now, issued, starts>>

\* fetchPackageInfo answered after a cache miss (lines 170-180); without
\* history cachePackageData issues its DELETE, with history its INSERT
FetchMissOk(r) ==
    /\ pc[r] = "fetchMiss"
    /\ \E files \in 1..MaxFiles :
         Await(r, IF cacheHistory THEN "cacheInsert" ELSE "cacheDelete",
               [loc[r] EXCEPT !.files = files], log[r] \o <<"package_ok", "cachePut">>)
    /\ UNCHANGED <<probe, file, cache, cacheHistory, now, issued, starts>>

\* as FetchMissNotFound, but a null result is handed to the catch of lines
\* 186-189, which fetches again
FetchMissNotFoundFallsBack(r) ==
    /\ pc[r] = "fetchMiss"
    /\ Await(r, "fetchFallback", loc[r], log[r] \o <<"package_none", "package">>)
    /\ UNCHANGED <<probe, file, cache, cacheHistory, now, issued, starts>>

\* fetchPackageInfo found no package after a cache miss (lines 171-173)
FetchMissNotFound(r) ==
    /\ pc[r] = "fetchMiss"
    /\ Respond(r, loc[r], "not_found", log[r] \o <<"package_none">>)
    /\ UNCHANGED <<probe, file, cache, cacheHistory, now, issued, starts>>

\* fetchPackageInfo threw inside the try of lines 158-185: its catch
\* (lines 186-189) calls fetchPackageInfo again
FetchMissFail(r) ==
    /\ pc[r] = "fetchMiss"
    /\ Await(r, "fetchFallback", loc[r], log[r] \o <<"package_fail", "package">>)
    /\ UNCHANGED <<probe, file, cache, cacheHistory, now, issued, starts>>

\* the DELETE of cachePackageData ran; its callback issues the INSERT
CacheDeleteOk(r) ==
    /\ pc[r] = "cacheDelete"
    /\ cache' = DeleteRows(cache, loc[r].identifier)
    /\ Await(r, "cacheInsert", loc[r], log[r] \o <<"delete_ok">>)
    /\ UNCHANGED <<probe, file, cacheHistory, now, issued, starts>>

\* the DELETE failed: cachePackageData rejects, lines 181-184 go on
CacheDeleteFail(r) ==
    /\ pc[r] = "cacheDelete"
    /\ Respond(r, loc[r], "ok", log[r] \o <<"delete_fail">>)
    /\ UNCHANGED <<probe, file, cache, cacheHistory, now, issued, starts>>

\* the INSERT of cachePackageData ran
CacheInsertOk(r) ==
    /\ pc[r] = "cacheInsert"
    /\ cache' = InsertRow(cache, loc[r].identifier, loc[r].contentId,
                          loc[r].lastModifiedDate, loc[r].files, now)
    /\ Respond(r, loc[r], "ok", log[r] \o <<"insert_ok">>)
    /\ UNCHANGED <<probe, file, cacheHistory, now, issued, starts>>

\* as CacheInsertFail, but the failed store is answered with 500
CacheInsertFailAborts(r) ==
    /\ pc[r] = "cacheInsert"
    /\ Respond(r, loc[r], "error", log[r] \o <<"insert_fail">>)
    /\ UNCHANGED <<probe, file, cache, cacheHistory, now, issued, starts>>

\* the INSERT failed: cachePackageData rejects, lines 181-184 go on
CacheInsertFail(r) ==
    /\ pc[r] = "cacheInsert"
    /\ Respond(r, loc[r], "ok", log[r] \o <<"insert_fail">>)
    /\ UNCHANGED <<probe, file, cache, cacheHistory, now, issued, starts>>

\* fetchPackageInfo answered on the direct path (lines 197-219) or in the
\* fallback of lines 189-193
FetchOk(r) ==
    /\ pc[r] \in {"fetch", "fetchFallback"}
    /\ \E files \in 1..MaxFiles :
         Respond(r, [loc[r] EXCEPT !.files = files], "ok", log[r] \o <<"package_ok">>)
    /\ UNCHANGED <<probe, file, cache, cacheHistory, now, issued, starts>>

FetchNotFound(r) ==
    /\ pc[r] \in {"fetch", "fetchFallback"}
    /\ Respond(r, loc[r], "not_found", log[r] \o <<"package_none">>)
    /\ UNCHANGED <<probe, file, cache, cacheHistory, now, issued, starts>>

\* fetchPackageInfo threw: the catch of lines 220-223
FetchFail(r) ==
    /\ pc[r] \in {"fetch", "fetchFallback"}
    /\ Respond(r, loc[r], "error", log[r] \o <<"package_fail">>)
    /\ UNCHANGED <<probe, file, cache, cacheHistory, now, issued, starts>>

\* GET /callback?code=...
StartCallbackCode(r) ==
    /\ Fresh(r)
    /\ Await(r, "exchange", CallbackLocals, <<"exchange">>)
    /\ UNCHANGED <<probe, file, cache, cacheHistory, now, issued>>

\* GET /callback?access_token=...: the caller passes a token it was issued
StartCallbackToken(r) ==
    /\ Fresh(r)
    /\ \E a \in 1..issued + 1 :
         /\ a <= MaxTok
         /\ issued' = IF a > issued THEN a ELSE issued
         /\ Await(r, "cb_xasu", [CallbackLocals EXCEPT !.access_token = a], <<"xasu">>)
    /\ UNCHANGED <<probe, file, cache, cacheHistory, now>>

\* GET /callback with neither code nor access_token
StartCallbackEmpty(r) ==
    /\ Fresh(r)
    /\ Respond(r, CallbackLocals, "cb_missing_token", <<>>)
    /\ UNCHANGED <<probe, file, cache, cacheHistory, now, issued>>

\* exchangeCodeForTokens answered (lines 28-45 of the callback)
ExchangeOk(r) ==
    /\ pc[r] = "exchange"
    /\ \E tokenData \in ExchangeResponses(issued + 1) :
         LET access_token == tokenData.val.access_token
         IN  IF ~Truthy(access_token)
             THEN /\ issued' = issued
                  /\ Respond(r, loc[r], "cb_missing_token", log[r] \o <<"exchange_ok">>)
             ELSE /\ issued < MaxTok
                  /\ issued' = issued + 1
                  /\ Await(r, "cb_xasu",
                           [loc[r] EXCEPT !.tokenData = tokenData,
                                          !.access_token = access_token],
                           log[r] \o <<"exchange_ok", "xasu">>)
    /\ UNCHANGED <<probe, file, cache, cacheHistory, now, starts>>

ExchangeFail(r) ==
    /\ pc[r] = "exchange"
    /\ Respond(r, loc[r], "cb_exchange_failed", log[r] \o <<"exchange_fail">>)
    /\ UNCHANGED <<probe, file, cache, cacheHistory, now, issued, starts>>

CallbackXasuOk(r) ==
    /\ pc[r] = "cb_xasu"
    /\ Await(r, "cb_xsts",
             [loc[r] EXCEPT !.userToken = authenticateXASU(loc[r].access_token)],
             log[r] \o <<"xasu_ok", "xsts">>)
    /\ UNCHANGED <<probe, file, cache, cacheHistory, now, issued, starts>>

CallbackXasuFail(r) ==
    /\ pc[r] = "cb_xasu"
    /\ Respond(r, loc[r], "cb_auth_failed", log[r] \o <<"xasu_fail">>)
    /\ UNCHANGED <<probe, file, cache, cacheHistory, now, issued, starts>>

\* tokenData && { refresh_token: tokenData.refresh_token, ... }
Field(tokenData, f) == IF f \in tokenData.has THEN tokenData.val[f] ELSE 0

\* lines 48-61 of the callback
fullState(access_token, userToken, xsts, tokenData) ==
    [EmptyBundle EXCEPT !.access_token = access_token,
                        !.userToken = userToken,
                        !.xsts = xsts,
                        !.refresh_token = Field(tokenData, "refresh_token"),
                        !.expires_in = Field(tokenData, "expires_in"),
                        !.scope = Field(tokenData, "scope")]

\* token.json as an earlier run of the service left it: absent, or what a
\* callback answered at StartTime saved
StoredBundles ==
    {saveTokens(fullState(1, authenticateXASU(1), xsts, tokenData), StartTime) :
        xsts \in XstsResponses(authenticateXASU(1), StartTime),
        tokenData \in TokenResponses(1) \cup {NoTokenData}}

NoProbe == [fn |-> "none"]

Init ==
    /\ file \in {NoFile} \cup StoredBundles
    /\ issued = IF file = NoFile THEN 0 ELSE 1
    /\ cache = <<>>
    /\ cacheHistory = FALSE
    /\ now = StartTime
    /\ starts = 0
    /\ pc = [r \in Slots |-> "idle"]
    /\ loc = [r \in Slots |-> NoLocals]
    /\ log = [r \in Slots |-> <<>>]
    /\ outcome = [r \in Slots |-> "none"]
    /\ probe = NoProbe

\* authenticateXSTS answered in the callback: lines 45-65
CallbackXstsOk(r) ==
    /\ pc[r] = "cb_xsts"
    /\ \E xsts \in XstsResponses(loc[r].userToken, now) :
         file' = saveTokens(fullState(loc[r].access_token, loc[r].userToken, xsts,
                                      loc[r].tokenData), now)
    /\ Respond(r, loc[r], "cb_ok", log[r] \o <<"xsts_ok", "save">>)
    /\ UNCHANGED <<probe, cache, cacheHistory, now, issued, starts>>

\* as CallbackXstsFail, but removing token.json when authentication fails
CallbackXstsFailClearsFile(r) ==
    /\ pc[r] = "cb_xsts"
    /\ file' = NoFile
    /\ Respond(r, loc[r], "cb_auth_failed", log[r] \o <<"xsts_fail">>)
    /\ UNCHANGED <<probe, cache, cacheHistory, now, issued, starts>>

CallbackXstsFail(r) ==
    /\ pc[r] = "cb_xsts"
    /\ Respond(r, loc[r], "cb_auth_failed", log[r] \o <<"xsts_fail">>)
    /\ UNCHANGED <<probe, file, cache, cacheHistory, now, issued, starts>>

\* time passes
Tick ==
    /\ now < StartTime + MaxTicks * MsPerSecond
    /\ now' = now + MsPerSecond
    /\ UNCHANGED <<probe, file, cache, cacheHistory, issued, starts, pc, loc, log, outcome>>

Next ==
    \/ Tick
    \/ \E r \in Slots :
        \/ StartContentId(r)
        \/ StartInvalid(r)
        \/ StartProductId(r, {"9wzdncrfj3tj"})
        \/ CatalogFail(r)
        \/ CatalogNotFound(r)
        \/ CatalogOk(r)
        \/ CacheGetDone(r)
        \/ CacheGetFail(r)
        \/ FetchMissOk(r)
        \/ FetchMissNotFound(r)
        \/ FetchMissFail(r)
        \/ CacheDeleteOk(r)
        \/ CacheDeleteFail(r)
        \/ CacheInsertOk(r)
        \/ CacheInsertFail(r)
        \/ RefreshOk(r)
        \/ RefreshFail(r)
        \/ XasuOk(r)
        \/ XasuFail(r)
        \/ XstsOk(r)
        \/ XstsFail(r)
        \/ FetchOk(r)
        \/ FetchNotFound(r)
        \/ FetchFail(r)
        \/ StartCallbackCode(r)
        \/ StartCallbackToken(r)
        \/ StartCallbackEmpty(r)
        \/ ExchangeOk(r)
        \/ ExchangeFail(r)
        \/ CallbackXasuOk(r)
        \/ CallbackXasuFail(r)
        \/ CallbackXstsOk(r)
        \/ CallbackXstsFail(r)

Spec == Init /\ [][Next]_vars

\* The same, with the progress the program itself guarantees: a statement
\* handed to sqlite runs and its callback is called.  A fetch() is given no
\* timeout and no abort signal (authService.js:32, 58, 83, 110;
\* packageService.js:14, 83), so nothing is assumed of the answers to the
\* network calls.
DatabaseStep(r) ==
    \/ CacheGetDone(r)
    \/ CacheGetFail(r)
    \/ CacheDeleteOk(r)
    \/ CacheDeleteFail(r)
    \/ CacheInsertOk(r)
    \/ CacheInsertFail(r)

SpecLive == Spec /\ \A r \in Slots : WF_vars(DatabaseStep(r))

\* ------------------------------------------- the identifier of a request
\* An identifier is its text, its length and the kinds of character in it:
\* "hex" (0-9, a-f, A-F), "alpha" (g-z, G-Z), "dash", "dot", and "other".
ContentIdLength == 36
MinProductIdLength == 8

Identifier(text, len, chars) == [text |-> text, len |-> len, chars |-> chars]

\* as isValidProductId, without productId.length >= 8
isValidProductIdAnyLength(identifier) ==
    identifier.chars \subseteq {"hex", "alpha", "dot"}

\* /^[0-9a-fA-F-]{36}$/.test(contentId)
isValidContentId(identifier) ==
    identifier.chars \subseteq {"hex", "dash"} /\ identifier.len = ContentIdLength

\* /^[0-9A-Za-z.]+$/.test(productId) && productId.length >= 8
isValidProductId(identifier) ==
    /\ identifier.chars \subseteq {"hex", "alpha", "dot"}
    /\ identifier.len >= MinProductIdLength

Identifiers ==
    {Identifier("51b27c18-6082-4877-8d9f-8b78b1bf356b", 36, {"hex", "dash"}),
     Identifier("51b27c18608248778d9f8b78b1bf356b0000", 36, {"hex"}),
     Identifier("51b27c18-6082-4877-8d9f-8b78b1bf356", 35, {"hex", "dash"}),
     Identifier("51b27c18-6082-4877-8d9f-8b78b1bf356g", 36, {"hex", "dash", "alpha"}),
     Identifier("9wzdncrfj3tj", 12, {"hex", "alpha"}),
     Identifier("9WZDNCRFJ3TJ", 12, {"hex", "alpha"}),
     Identifier("9WZD.NCRFJ3TJ", 13, {"hex", "alpha", "dot"}),
     Identifier("9wzdncr", 7, {"hex", "alpha"}),
     Identifier("9wzd_ncrfj3tj", 13, {"hex", "alpha", "other"}),
     Identifier("12345678", 8, {"hex"})}

\* GET /:identifier: lines 76-123 of the handler choose the path
ReceiveIdentifier(r) ==
    IF isValidContentId(probe.identifier) THEN StartContentId(r)
    ELSE IF isValidProductId(probe.identifier)
         THEN StartProductId(r, {probe.identifier.text})
         ELSE StartInvalid(r)

\* an awaited network call of a protected request is answered
NetworkStep(r) ==
    \/ CatalogFail(r)
    \/ CatalogNotFound(r)
    \/ CatalogOk(r)
    \/ RefreshOk(r)
    \/ RefreshFail(r)
    \/ XasuOk(r)
    \/ XasuFail(r)
    \/ XstsOk(r)
    \/ XstsFail(r)
    \/ FetchMissOk(r)
    \/ FetchMissNotFound(r)
    \/ FetchMissFail(r)
    \/ FetchOk(r)
    \/ FetchNotFound(r)
    \/ FetchFail(r)

\* requests for one identifier, one after the other
InitIdentifier ==
    /\ file \in {NoFile} \cup StoredBundles
    /\ issued = IF file = NoFile THEN 0 ELSE 1
    /\ cache = <<>>
    /\ cacheHistory \in BOOLEAN
    /\ now = StartTime
    /\ starts = 0
    /\ pc = [r \in Slots |-> "idle"]
    /\ loc = [r \in Slots |-> NoLocals]
    /\ log = [r \in Slots |-> <<>>]
    /\ outcome = [r \in Slots |-> "none"]
    /\ probe \in {[fn |-> "identifier", identifier |-> i] : i \in Identifiers}

NextIdentifier ==
    \/ Tick
    \/ ReceiveIdentifier(1)
    \/ NetworkStep(1)
    \/ DatabaseStep(1)

SpecIdentifier == InitIdentifier /\ [][NextIdentifier]_vars

\* ------------------------------------------- needsXboxTokenRefresh alone
MaxNotAfter == 3

\* NotAfter values: absent, no date, and dates (in milliseconds)
NotAfters ==
    {0, InvalidDate} \cup {bufferTime + k * MsPerSecond : k \in 1..MaxNotAfter}

XstsArguments ==
    {NullXsts} \cup {[Token |-> 1, NotAfter |-> na] : na \in NotAfters}

\* Date.now() around each NotAfter less the buffer
ProbeTimes ==
    {k * MsPerSecond + d : k \in 1..MaxNotAfter, d \in {-MsPerSecond, -1, 0, 1, MsPerSecond}}
    \ {0}

Idle ==
    /\ file = NoFile
    /\ issued = 0
    /\ cache = <<>>
    /\ cacheHistory = FALSE
    /\ starts = 0
    /\ pc = [r \in Slots |-> "idle"]
    /\ loc = [r \in Slots |-> NoLocals]
    /\ log = [r \in Slots |-> <<>>]
    /\ outcome = [r \in Slots |-> "none"]

InitXbox ==
    /\ Idle
    /\ now \in ProbeTimes
    /\ probe \in {[fn |-> "needsXboxTokenRefresh", xstsToken |-> x, result |-> "pending"] :
                    x \in XstsArguments}

CallNeedsXboxTokenRefresh ==
    /\ probe.fn = "needsXboxTokenRefresh"
    /\ probe.result = "pending"
    /\ probe' = [probe EXCEPT !.result =
                    IF needsXboxTokenRefresh(probe.xstsToken, now) THEN "true" ELSE "false"]
    /\ UNCHANGED <<file, cache, cacheHistory, now, issued, starts, pc, loc, log, outcome>>

NextXbox == CallNeedsXboxTokenRefresh

SpecXbox == InitXbox /\ [][NextXbox]_vars

\* ------------------------------ saveTokens then needsTokenRefresh alone
MaxSeconds == 4

\* the instants the probe looks at: each whole second, 1 ms before, 1 ms after
ProbeInstants ==
    {StartTime + k * MsPerSecond + d : k \in 0..MaxSeconds, d \in {-1, 0, 1}}

ExpiryProbe(fn, data, savedAt, result) ==
    [fn |-> fn, data |-> data, savedAt |-> savedAt, result |-> result]

InitExpiry ==
    /\ Idle
    /\ now = StartTime
    /\ probe \in {ExpiryProbe("saveTokens",
                              [EmptyBundle EXCEPT !.access_token = 1, !.expires_in = n,
                                                  !.expires_at = old],
                              0, "pending") :
                    n \in 1..MaxExpiresIn, old \in {0, StartTime}}

ProbeTick ==
    /\ \E t \in ProbeInstants : t > now /\ now' = t
    /\ probe' = IF probe.fn = "needsTokenRefresh"
                THEN [probe EXCEPT !.result = "pending"] ELSE probe
    /\ UNCHANGED <<file, cache, cacheHistory, issued, starts, pc, loc, log, outcome>>

\* saveTokens(data) sets data.expires_at and writes token.json
CallSaveTokens ==
    /\ probe.fn = "saveTokens"
    /\ file' = saveTokens(probe.data, now)
    /\ probe' = ExpiryProbe("needsTokenRefresh", saveTokens(probe.data, now), now, "pending")
    /\ UNCHANGED <<cache, cacheHistory, now, issued, starts, pc, loc, log, outcome>>

CallNeedsTokenRefresh ==
    /\ probe.fn = "needsTokenRefresh"
    /\ probe.result = "pending"
    /\ probe' = [probe EXCEPT !.result =
                    IF needsTokenRefresh(probe.data, now) THEN "true" ELSE "false"]
    /\ UNCHANGED <<file, cache, cacheHistory, now, issued, starts, pc, loc, log, outcome>>

NextExpiry == ProbeTick \/ CallSaveTokens \/ CallNeedsTokenRefresh

SpecExpiry == InitExpiry /\ [][NextExpiry]_vars

\* ------------------------------------------------- cacheService alone
MaxStores == 2
MaxDate == 3
MaxHalfSeconds == 2

HalfSecond == MsPerSecond \div 2

\* LastModifiedDate strings: dates, and one that is no date
Dates == (1..MaxDate) \cup {InvalidDate}

\* a call of cachePackageData: its arguments, the statement it waits for
\* ("delete", "insert") or how it ended ("resolved", "rejected"), and
\* whether every earlier call had ended when it was made
StoreCall(productId, contentId, lastModifiedDate, files, at, successive) ==
    [productId |-> productId, contentId |-> contentId,
     lastModifiedDate |-> lastModifiedDate, files |-> files, at |-> at,
     successive |-> successive]

\* a call of getCachedPackageData: its arguments, whether it waits for its
\* SELECT ("select") or how it ended ("resolved", "rejected"), and the value
\* it resolved to
NoLookup == [at |-> "none", productId |-> "", lastModifiedDate |-> 0, result |-> NoData]

Resolved(lookup) == lookup.at = "resolved"

\* the lookup the probe keeps when the table changes: one that waits for
\* its SELECT stays, one that ended is forgotten
Pending(lookup) == IF lookup.at = "select" THEN lookup ELSE NoLookup

CacheProbe(stores, lookup) == [fn |-> "cacheService", stores |-> stores, lookup |-> lookup]

Ended(store) == store.at \in {"resolved", "rejected"}

InitCache ==
    /\ file = NoFile
    /\ issued = 0
    /\ cache = <<>>
    /\ cacheHistory \in BOOLEAN
    /\ now = StartTime
    /\ starts = 0
    /\ pc = [r \in Slots |-> "idle"]
    /\ loc = [r \in Slots |-> NoLocals]
    /\ log = [r \in Slots |-> <<>>]
    /\ outcome = [r \in Slots |-> "none"]
    /\ probe = CacheProbe(<<>>, NoLookup)

\* cachePackageData(productId, contentId, lastModifiedDate, files) is
\* called: with history it issues its INSERT, without its DELETE
CallCachePackageData ==
    /\ Len(probe.stores) < MaxStores
    /\ \E productId \in ProductIds, lastModifiedDate \in Dates :
         probe' = CacheProbe(
            Append(probe.stores,
                   StoreCall(productId, 1, lastModifiedDate, Len(probe.stores) + 1,
                             IF cacheHistory THEN "insert" ELSE "delete",
                             \A i \in DOMAIN probe.stores : Ended(probe.stores[i]))),
            probe.lookup)
    /\ UNCHANGED <<file, cache, cacheHistory, now, issued, starts, pc, loc, log, outcome>>

\* the DELETE of call i runs; its callback issues the INSERT
RunDelete(i) ==
    /\ i \in DOMAIN probe.stores
    /\ probe.stores[i].at = "delete"
    /\ cache' = DeleteRows(cache, probe.stores[i].productId)
    /\ probe' = CacheProbe([probe.stores EXCEPT ![i].at = "insert"], Pending(probe.lookup))
    /\ UNCHANGED <<file, cacheHistory, now, issued, starts, pc, loc, log, outcome>>

\* the INSERT of call i runs and the call resolves
RunInsert(i) ==
    /\ i \in DOMAIN probe.stores
    /\ probe.stores[i].at = "insert"
    /\ cache' = InsertRow(cache, probe.stores[i].productId, probe.stores[i].contentId,
                          probe.stores[i].lastModifiedDate, probe.stores[i].files, now)
    /\ probe' = CacheProbe([probe.stores EXCEPT ![i].at = "resolved"], Pending(probe.lookup))
    /\ UNCHANGED <<file, cacheHistory, now, issued, starts, pc, loc, log, outcome>>

\* the statement call i waits for fails and the call rejects
RunError(i) ==
    /\ i \in DOMAIN probe.stores
    /\ probe.stores[i].at \in {"delete", "insert"}
    /\ probe' = CacheProbe([probe.stores EXCEPT ![i].at = "rejected"], probe.lookup)
    /\ UNCHANGED <<file, cache, cacheHistory, now, issued, starts, pc, loc, log, outcome>>

\* getCachedPackageData(productId, lastModifiedDate) is called: it hands its
\* SELECT to the database and returns a pending promise
CallGetCachedPackageData ==
    /\ probe.lookup.at # "select"
    /\ \E productId \in ProductIds, lastModifiedDate \in Dates :
         probe' = CacheProbe(probe.stores,
                             [at |-> "select", productId |-> productId,
                              lastModifiedDate |-> lastModifiedDate,
                              result |-> NoData])
    /\ UNCHANGED <<file, cache, cacheHistory, now, issued, starts, pc, loc, log, outcome>>

\* the SELECT runs and the db.get callback resolves the lookup
RunSelect ==
    /\ probe.lookup.at = "select"
    /\ \E result \in getCachedPackageData(cache, probe.lookup.productId,
                                          probe.lookup.lastModifiedDate) :
         probe' = CacheProbe(probe.stores,
                             [probe.lookup EXCEPT !.at = "resolved", !.result = result])
    /\ UNCHANGED <<file, cache, cacheHistory, now, issued, starts, pc, loc, log, outcome>>

\* the SELECT fails and the lookup rejects
RunSelectError ==
    /\ probe.lookup.at = "select"
    /\ probe' = CacheProbe(probe.stores, [probe.lookup EXCEPT !.at = "rejected"])
    /\ UNCHANGED <<file, cache, cacheHistory, now, issued, starts, pc, loc, log, outcome>>

\* half a second passes
CacheTick ==
    /\ now < StartTime + MaxHalfSeconds * HalfSecond
    /\ now' = now + HalfSecond
    /\ UNCHANGED <<probe, file, cache, cacheHistory, issued, starts, pc, loc, log, outcome>>

NextCache ==
    \/ CallCachePackageData
    \/ \E i \in 1..MaxStores :
        \/ RunDelete(i)
        \/ RunInsert(i)
        \/ RunError(i)
    \/ CallGetCachedPackageData
    \/ RunSelect
    \/ RunSelectError
    \/ CacheTick

SpecCache == InitCache /\ [][NextCache]_vars

\* ------------------------------------------- the auth middleware alone
\* An Authorization header is absent, or its first seven characters and
\* the rest of it; a password that is not configured is the empty string.
NoHeader == [present |-> FALSE, prefix |-> "", rest |-> ""]
Header(prefix, rest) == [present |-> TRUE, prefix |-> prefix, rest |-> rest]

AuthHeaders ==
    {NoHeader,
     Header("Bearer ", "secret"), Header("Bearer ", "wrong"),
     Header("Bearer ", "Secret"), Header("bearer ", "secret"),
     Header("Basic s", "ecret"), Header("secret", ""), Header("Bearer", "")}

AuthPasswords == {"", "secret", "wrong"}

Paths == {"/", "/msixvc/login", "/msixvc/callback", "/msixvc/9WZDNCRFJ3TJ"}

\* as isPasswordAuthenticated, without authHeader.startsWith('Bearer ')
isPasswordAuthenticatedAnyScheme(authHeader, authPassword) ==
    IF authPassword = "" THEN FALSE
    ELSE IF authHeader.present THEN authHeader.rest = authPassword
    ELSE FALSE

isPasswordAuthenticated(authHeader, authPassword) ==
    IF authPassword = "" THEN FALSE
    ELSE IF authHeader.present /\ authHeader.prefix = "Bearer "
         THEN authHeader.rest = authPassword
    ELSE FALSE

\* the middleware createAuthMiddleware returns: "next" or "401"
authMiddleware(path, authHeader, publicMode, authPassword) ==
    IF path = "/" THEN "next"
    ELSE LET hasPasswordAuth == isPasswordAuthenticated(authHeader, authPassword)
         IN  IF publicMode THEN "next"
             ELSE IF ~hasPasswordAuth THEN "401"
             ELSE "next"

InitAuth ==
    /\ Idle
    /\ now = StartTime
    /\ probe \in {[fn |-> "authMiddleware", path |-> path, authHeader |-> h,
                   publicMode |-> m, authPassword |-> pw, result |-> "pending"] :
                    path \in Paths, h \in AuthHeaders, m \in BOOLEAN,
                    pw \in AuthPasswords}

CallAuthMiddleware ==
    /\ probe.fn = "authMiddleware"
    /\ probe.result = "pending"
    /\ probe' = [probe EXCEPT !.result =
                    authMiddleware(probe.path, probe.authHeader, probe.publicMode,
                                   probe.authPassword)]
    /\ UNCHANGED <<file, cache, cacheHistory, now, issued, starts, pc, loc, log, outcome>>

NextAuth == CallAuthMiddleware

SpecAuth == InitAuth /\ [][NextAuth]_vars

\* ------------------------------------------------- clearOldCache alone
MaxRows == 3
MaxDays == 2
MaxDaysOld == 2

MsPerDay == 24 * 60 * 60 * MsPerSecond

\* datetime('now', '-<daysOld> days') at Date.now() = t, in seconds as
\* cached_at is
datetime(t, daysOld) == t \div MsPerSecond - daysOld * (MsPerDay \div MsPerSecond)

\* as clearOldCache, with cached_at <= datetime(...)
clearOldCacheInclusive(rows, daysOld, t) ==
    LET kept == SelectSeq(rows, LAMBDA row : row.cached_at > datetime(t, daysOld))
    IN  [rows |-> kept, changes |-> Len(rows) - Len(kept)]

\* DELETE FROM package_cache WHERE cached_at < datetime('now', '-N days'):
\* the rows that stay and this.changes
clearOldCache(rows, daysOld, t) ==
    LET kept == SelectSeq(rows, LAMBDA row : row.cached_at >= datetime(t, daysOld))
    IN  [rows |-> kept, changes |-> Len(rows) - Len(kept)]

\* clearOldCache(): daysOld = 30
DefaultDaysOld == 30

DaysOld == 0..MaxDaysOld \cup {DefaultDaysOld}

\* no call of clearOldCache is under way; at is "delete" while the DELETE
\* is with sqlite, "resolved" or "rejected" in the state its callback leaves
NoPurge == [fn |-> "clearOldCache", at |-> "none", daysOld |-> 0, before |-> <<>>,
            changes |-> 0]

\* a call whose DELETE has not run stays as it is over another step
PendingPurge(p) == IF p.at = "delete" THEN p ELSE NoPurge

\* the service keeps history, so that cachePackageData is its INSERT alone
InitPurge ==
    /\ file = NoFile
    /\ issued = 0
    /\ cache = <<>>
    /\ cacheHistory = TRUE
    /\ starts = 0
    /\ pc = [r \in Slots |-> "idle"]
    /\ loc = [r \in Slots |-> NoLocals]
    /\ log = [r \in Slots |-> <<>>]
    /\ outcome = [r \in Slots |-> "none"]
    /\ now = StartTime
    /\ probe = NoPurge

\* cachePackageData of a request handler: the INSERT runs
PurgeStore ==
    /\ Len(cache) < MaxRows
    /\ \E productId \in ProductIds, lastModifiedDate \in 1..MaxLmd :
         cache' = InsertRow(cache, productId, 1, lastModifiedDate, 1, now)
    /\ probe' = PendingPurge(probe)
    /\ UNCHANGED <<file, cacheHistory, now, issued, starts, pc, loc, log, outcome>>

\* the embedding application calls clearOldCache(daysOld): the DELETE is
\* handed to sqlite and the promise is pending
CallClearOldCache ==
    /\ probe.at # "delete"
    /\ \E daysOld \in DaysOld :
         probe' = [fn |-> "clearOldCache", at |-> "delete", daysOld |-> daysOld,
                   before |-> <<>>, changes |-> 0]
    /\ UNCHANGED <<file, cache, cacheHistory, now, issued, starts, pc, loc, log, outcome>>

\* sqlite runs the DELETE and the callback resolves with this.changes
RunPurgeDelete ==
    /\ probe.fn = "clearOldCache" /\ probe.at = "delete"
    /\ LET done == clearOldCache(cache, probe.daysOld, now)
       IN  /\ cache' = done.rows
           /\ probe' = [probe EXCEPT !.at = "resolved", !.before = cache,
                                     !.changes = done.changes]
    /\ UNCHANGED <<file, cacheHistory, now, issued, starts, pc, loc, log, outcome>>

\* sqlite fails the DELETE: the callback is given err and rejects
RunPurgeDeleteError ==
    /\ probe.fn = "clearOldCache" /\ probe.at = "delete"
    /\ probe' = [probe EXCEPT !.at = "rejected", !.before = cache]
    /\ UNCHANGED <<file, cache, cacheHistory, now, issued, starts, pc, loc, log, outcome>>

\* a day passes
DayPasses ==
    /\ now + MsPerDay <= StartTime + MaxDays * MsPerDay + HalfSecond
    /\ now' = now + MsPerDay
    /\ probe' = PendingPurge(probe)
    /\ UNCHANGED <<file, cache, cacheHistory, issued, starts, pc, loc, log, outcome>>

\* half a second passes, once
PurgeTick ==
    /\ (now - StartTime) % MsPerDay = 0
    /\ now' = now + HalfSecond
    /\ probe' = PendingPurge(probe)
    /\ UNCHANGED <<file, cache, cacheHistory, issued, starts, pc, loc, log, outcome>>

NextPurge ==
    \/ PurgeStore
    \/ CallClearOldCache
    \/ RunPurgeDelete
    \/ RunPurgeDeleteError
    \/ DayPasses
    \/ PurgeTick

SpecPurge == InitPurge /\ [][NextPurge]_vars

\* ------------------------------------------------------------ properties
Range(seq) == {seq[i] : i \in DOMAIN seq}
Last(seq) == seq[Len(seq)]

\* request r calls loadTokens in this step
Loads(r) ==
    \/ Fresh(r) /\ Len(log'[r]) > 0 /\ log'[r][1] \in {"load", "load_none"}
    \/ pc[r] = "catalog" /\ "catalog_ok" \in Range(log'[r])

\* the refresh call of request r is answered with success in this step
RefreshSucceeds(r) == pc[r] = "refresh" /\ "refresh_ok" \in Range(log'[r])

IdentityOrPackageCalls == {"refresh", "xasu", "xsts", "package", "cacheGet", "cachePut"}

\* C1: a successful refresh persists and returns a bundle whose userToken
\* and xsts are null, whatever they were and whatever the response carried.
C1_RefreshClearsDerived ==
    [][\A r \in Slots :
         RefreshSucceeds(r) =>
            /\ file'.userToken = 0 /\ file'.xsts = NullXsts
            /\ pc'[r] = "xasu"
            /\ loc'[r].tokens.userToken = 0 /\ loc'[r].tokens.xsts = NullXsts]_vars

\* a refresh whose response carried userToken and xsts has just been saved,
\* over a bundle that had both
C1_Witness ==
    \E r \in Slots :
        /\ pc[r] = "xasu" /\ Last(log[r]) = "xasu" /\ "refresh_ok" \in Range(log[r])
        /\ "xsts" \in loc[r].tokenData.has
        /\ file # NoFile /\ file.access_token = loc[r].tokens.access_token
        /\ file.xsts = NullXsts /\ file.userToken = 0

\* C2: in every state the persisted xsts, when there is one, was issued
\* for the access token persisted with it.
C2_XstsOfStoredAccessToken ==
    (file # NoFile /\ file.xsts # NullXsts) => file.xsts.Token = file.access_token

\* a refreshed access token persisted with the xsts re-derived from it
C2_Witness ==
    /\ file # NoFile /\ file.refreshed = 1
    /\ file.xsts # NullXsts /\ file.xsts.Token = file.access_token
    /\ file.access_token > 1

\* C3: the save after a security re-authentication leaves expires_at as
\* the earlier save derived it (it does not derive it again from expires_in).
C3_ReauthSaveKeepsExpiry ==
    [][\A r \in Slots :
         (pc[r] = "xsts" /\ "xsts_ok" \in Range(log'[r])
            /\ Truthy(loc[r].tokens.expires_at))
         => file'.expires_at = loc[r].tokens.expires_at]_vars

\* C4: a bundle saved at T with expires_in N is not due for refresh at
\* T + (N-1)s, is due at T + (N+1)s, and is due exactly from T + N s on.
C4_ExpiryDerivation ==
    (probe.fn = "needsTokenRefresh" /\ probe.result # "pending") =>
        LET T == probe.savedAt
            N == probe.data.expires_in
        IN  /\ now = T + (N - 1) * 1000 => probe.result = "false"
            /\ now = T + (N + 1) * 1000 => probe.result = "true"
            /\ probe.result = "true" <=> now >= T + N * 1000

\* needsTokenRefresh answered true one second after the expiry of a bundle
\* saved later than the start
C4_Witness ==
    /\ probe.fn = "needsTokenRefresh" /\ probe.result = "true"
    /\ probe.savedAt > StartTime
    /\ now = probe.savedAt + (probe.data.expires_in + 1) * 1000

\* C5 as stated: after a refresh every field of the persisted bundle that
\* the response lacks has its prior value, every field it has takes the
\* response's value, and userToken and xsts are null.
C5_EveryAbsentFieldKept ==
    [][\A r \in Slots :
         RefreshSucceeds(r) =>
            LET old == loc[r].tokens
                response == loc'[r].tokenData
            IN  /\ \A f \in BundleFields \ {"userToken", "xsts"} :
                     file'[f] = IF f \in response.has THEN response.val[f] ELSE old[f]
                /\ file'.userToken = 0 /\ file'.xsts = NullXsts]_vars

\* C5 amended: the same for every field but expires_at, which saveTokens
\* sets to now + expires_in seconds when the merged bundle has an expires_in
\* and leaves alone when it has none.
C5_AbsentFieldsKeptButExpiry ==
    [][\A r \in Slots :
         RefreshSucceeds(r) =>
            LET old == loc[r].tokens
                response == loc'[r].tokenData
            IN  /\ \A f \in BundleFields \ {"userToken", "xsts", "expires_at"} :
                     file'[f] = IF f \in response.has THEN response.val[f] ELSE old[f]
                /\ file'.userToken = 0 /\ file'.xsts = NullXsts
                /\ file'.expires_at =
                     IF file'.expires_in # 0 THEN now + file'.expires_in * 1000
                     ELSE old.expires_at]_vars

\* a refresh whose response had no refresh_token has been saved: the new
\* access token is stored with the old refresh token
C5_Witness ==
    \E r \in Slots :
        /\ pc[r] = "xasu" /\ "refresh_ok" \in Range(log[r])
        /\ "refresh_token" \notin loc[r].tokenData.has
        /\ file # NoFile /\ file.access_token = loc[r].tokenData.val.access_token
        /\ file.refresh_token # 0 /\ file.refresh_token # file.access_token
        /\ file.xsts = NullXsts

\* C6: a request that loads tokens while none are persisted is answered
\* 401 in that step, having called neither refresh, user or security
\* authentication nor the package service, and having written nothing.
C6_NoBundleNoCalls ==
    [][\A r \in Slots :
         (Loads(r) /\ file = NoFile) =>
            /\ pc'[r] = "done" /\ outcome'[r] = "not_authenticated"
            /\ file' = NoFile
            /\ Range(log'[r]) \cap (IdentityOrPackageCalls \cup {"save"}) = {}]_vars

\* a product-id request was refused for want of a bundle
C6_Witness ==
    \E r \in Slots :
        /\ pc[r] = "done" /\ outcome[r] = "not_authenticated"
        /\ log[r] = <<"catalog", "catalog_ok", "load_none">>
        /\ file = NoFile

\* C7: a request that loads a bundle whose access token is absent or
\* expired and which has no refresh token is answered 401 in that step,
\* with no identity call and the persisted bundle unchanged.
C7_NoRefreshTokenNoCalls ==
    [][\A r \in Slots :
         (/\ Loads(r)
          /\ file # NoFile
          /\ file.access_token = 0 \/ (file.expires_at # 0 /\ now >= file.expires_at)
          /\ file.refresh_token = 0) =>
            /\ pc'[r] = "done" /\ outcome'[r] = "not_authenticated"
            /\ file' = file
            /\ Range(log'[r]) \cap (IdentityOrPackageCalls \cup {"save"}) = {}]_vars

\* a request was refused over an expired bundle without a refresh token
C7_Witness ==
    \E r \in Slots :
        /\ pc[r] = "done" /\ outcome[r] = "not_authenticated"
        /\ Last(log[r]) = "load"
        /\ file # NoFile /\ file.refresh_token = 0
        /\ file.expires_at # 0 /\ now >= file.expires_at

\* C8: when the refresh call fails the request is answered 401 in that
\* step: the persisted bundle is as it was, the request has saved nothing
\* and calls neither user or security authentication nor the package service.
C8_RefreshFailureIsFinal ==
    [][\A r \in Slots :
         (pc[r] = "refresh" /\ "refresh_fail" \in Range(log'[r])) =>
            /\ pc'[r] = "done" /\ outcome'[r] = "not_authenticated"
            /\ file' = file
            /\ Last(log'[r]) = "refresh_fail"
            /\ Range(log'[r]) \cap {"xasu", "xsts", "package", "cacheGet", "save"} = {}]_vars

\* a request ended on a failed refresh
C8_Witness ==
    \E r \in Slots :
        /\ pc[r] = "done" /\ outcome[r] = "not_authenticated"
        /\ Last(log[r]) = "refresh_fail"

\* C9: when user or security authentication fails in a protected request
\* the request is answered 'Xbox Live authentication failed' in that step,
\* which writes nothing; no package or cache call follows.
C9_ReauthFailureIsFinal ==
    [][\A r \in Slots :
         (pc[r] \in {"xasu", "xsts"}
            /\ Range(log'[r]) \cap {"xasu_fail", "xsts_fail"} # {}) =>
            /\ pc'[r] = "done" /\ outcome'[r] = "xbox_auth_failed"
            /\ file' = file
            /\ Last(log'[r]) \in {"xasu_fail", "xsts_fail"}
            /\ Range(log'[r]) \cap {"package", "cacheGet", "cachePut"} = {}]_vars

\* a product-id request ended on a failed security authentication
C9_Witness ==
    \E r \in Slots :
        /\ pc[r] = "done" /\ outcome[r] = "xbox_auth_failed"
        /\ log[r][1] = "catalog" /\ Last(log[r]) = "xsts_fail"

\* C10: needsXboxTokenRefresh(x) is true exactly when x is null, or has no
\* NotAfter, or now >= NotAfter - 5 minutes.
C10_XboxRefreshExactly ==
    (probe.fn = "needsXboxTokenRefresh" /\ probe.result # "pending") =>
        LET x == probe.xstsToken
        IN  probe.result = "true" <=>
               \/ x = NullXsts
               \/ x.NotAfter = 0
               \/ x.NotAfter > 0 /\ now >= x.NotAfter - 300000

\* a token judged valid one second before NotAfter - 5 minutes
C10_Witness ==
    /\ probe.fn = "needsXboxTokenRefresh" /\ probe.result = "false"
    /\ probe.xstsToken.NotAfter > 0
    /\ now = probe.xstsToken.NotAfter - 300000 - 1000

\* the awaits at which a request holds the xsts it presents, or has
\* presented, to fetchPackageInfo
PackageStages == {"cacheGet", "fetchMiss", "fetch", "fetchFallback"}

\* request r issues a fetchPackageInfo call in this step
CallsPackage(r) ==
    /\ log'[r] # <<>>
    /\ Last(log'[r]) = "package"
    /\ log'[r] # log[r]

\* C11: a request comes to hold the xsts it presents to the package service
\* only by needsXboxTokenRefresh judging the loaded one valid in that step or
\* by its own security authentication answering in that step; it presents
\* that xsts unchanged; and no request that calls the package service has
\* met a missing bundle, a failed refresh or a failed re-authentication.
C11_PackageCallPresentsUsableXsts ==
    [][\A r \in Slots :
         /\ (pc[r] \notin PackageStages /\ pc'[r] \in PackageStages) =>
               \/ /\ pc[r] = "xsts"
                  /\ "xsts_ok" \in Range(log'[r])
                  /\ loc'[r].xsts \in XstsResponses(loc[r].userToken, now)
               \/ /\ Loads(r)
                  /\ file # NoFile
                  /\ loc'[r].xsts = file.xsts
                  /\ loc'[r].xsts # NullXsts
                  /\ ~needsXboxTokenRefresh(loc'[r].xsts, now)
         /\ (pc[r] \in PackageStages /\ pc'[r] \in PackageStages) =>
               loc'[r].xsts = loc[r].xsts
         /\ CallsPackage(r) =>
               /\ pc'[r] \in PackageStages
               /\ Range(log'[r]) \cap {"load_none", "refresh_fail", "xasu_fail",
                                       "xsts_fail"} = {}
               /\ "load" \in Range(log'[r])]_vars

\* a content-id request called the package service with the stored xsts,
\* which needsXboxTokenRefresh had judged valid
C11_Witness ==
    \E r \in Slots :
        /\ pc[r] = "fetch" /\ log[r] = <<"load", "package">>
        /\ loc[r].xsts # NullXsts /\ loc[r].xsts.NotAfter > now + bufferTime
        /\ file # NoFile /\ file.xsts = loc[r].xsts

\* the rows of a product id (in any letter-casing)
RowsOf(productId) ==
    {i \in DOMAIN cache : cache[i].product_id = toUpperCase(productId)}

\* C12: when the query selects one row for the product id looked up, and
\* its date D and the date of the lookup are dates, the lookup returns that
\* row's content id and files if its date is D or earlier and null if it is
\* strictly later.
C12_FreshnessMonotone ==
    (probe.fn = "cacheService" /\ Resolved(probe.lookup)) =>
        LET found == SelectLatest(cache, toUpperCase(probe.lookup.productId))
            Dl == probe.lookup.lastModifiedDate
        IN  \A row \in found :
              (found = {row} /\ row.last_modified_date # InvalidDate /\ Dl # InvalidDate) =>
                 /\ Dl <= row.last_modified_date =>
                       probe.lookup.result =
                          [contentId |-> row.content_id, files |-> row.files_data]
                 /\ Dl > row.last_modified_date => probe.lookup.result = NoData

\* a lookup with the stored date itself has returned the entry
C12_Witness ==
    /\ probe.fn = "cacheService" /\ Resolved(probe.lookup)
    /\ Cardinality(RowsOf(probe.lookup.productId)) = 1
    /\ \E i \in RowsOf(probe.lookup.productId) :
         /\ cache[i].last_modified_date = probe.lookup.lastModifiedDate
         /\ cache[i].last_modified_date > 1
         /\ probe.lookup.result = [contentId |-> cache[i].content_id,
                                   files |-> cache[i].files_data]

\* two cachePackageData calls for one product id have both resolved, the
\* second made after the first had ended
TwoSuccessiveStores ==
    /\ probe.fn = "cacheService"
    /\ Len(probe.stores) = 2
    /\ \A i \in 1..2 : probe.stores[i].at = "resolved"
    /\ probe.stores[2].successive
    /\ toUpperCase(probe.stores[1].productId) = toUpperCase(probe.stores[2].productId)

\* C13: after two successive cachePackageData calls for one product id the
\* table holds one row for it without history, and with history two rows, of
\* which a following lookup is answered from the one the second call wrote.
C13_SuccessiveStores ==
    TwoSuccessiveStores =>
        LET rows == RowsOf(probe.stores[2].productId)
        IN  /\ ~cacheHistory => Cardinality(rows) = 1
            /\ cacheHistory =>
                 /\ Cardinality(rows) = 2
                 /\ (Resolved(probe.lookup)
                       /\ toUpperCase(probe.lookup.productId)
                            = toUpperCase(probe.stores[2].productId)) =>
                      \E i \in rows :
                         /\ cache[i].files_data = probe.stores[2].files
                         /\ probe.lookup.result =
                               CachedData(cache[i], probe.lookup.lastModifiedDate)

\* C14: without history, once every cachePackageData call has ended the
\* table holds at most one row for each product id, however the DELETEs
\* and INSERTs of concurrent calls were interleaved.
C14_OneRowAfterConcurrentStores ==
    (/\ probe.fn = "cacheService"
     /\ ~cacheHistory
     /\ \A i \in DOMAIN probe.stores : Ended(probe.stores[i])) =>
        \A productId \in ProductIds : Cardinality(RowsOf(productId)) <= 1

\* one cachePackageData call has resolved, and a lookup was then made with
\* the product id in another letter-casing
LookupInOtherCasing ==
    /\ probe.fn = "cacheService"
    /\ Len(probe.stores) = 1
    /\ probe.stores[1].at = "resolved"
    /\ Resolved(probe.lookup)
    /\ probe.lookup.productId # probe.stores[1].productId

\* C15: an entry stored under a product id is returned by a lookup that
\* gives the id in another letter-casing and a date not newer than the
\* stored one.
C15_KeysIgnoreCase ==
    (/\ LookupInOtherCasing
     /\ probe.stores[1].lastModifiedDate # InvalidDate
     /\ probe.lookup.lastModifiedDate # InvalidDate
     /\ probe.lookup.lastModifiedDate <= probe.stores[1].lastModifiedDate) =>
        probe.lookup.result = [contentId |-> probe.stores[1].contentId,
                               files |-> probe.stores[1].files]

\* stored in lower case, looked up in upper case with an earlier date, and hit
C15_Witness ==
    /\ LookupInOtherCasing
    /\ probe.stores[1].productId = "9wzdncrfj3tj"
    /\ probe.lookup.productId = "9WZDNCRFJ3TJ"
    /\ probe.lookup.lastModifiedDate > 0
    /\ probe.lookup.lastModifiedDate < probe.stores[1].lastModifiedDate
    /\ probe.lookup.result # NoData

StorageErrors == {"cache_fail", "delete_fail", "insert_fail"}

\* request r is told of event e in this step
Gets(r, e) ==
    /\ pc[r] \notin {"idle", "done"}
    /\ \E i \in DOMAIN log'[r] : i > Len(log[r]) /\ log'[r][i] = e

\* C16: a product-id request whose cache lookup fails goes on to a direct
\* package fetch and answers with its files; one whose cache store fails
\* answers with the files it had fetched; and a request that met a storage
\* error is refused only by the package service (no package, or its failure).
C16_StorageErrorsNotSurfaced ==
    [][\A r \in Slots :
         /\ (pc[r] = "cacheGet" /\ Gets(r, "cache_fail")) =>
               /\ pc'[r] = "fetchFallback"
               /\ Last(log'[r]) = "package"
         /\ (pc[r] = "fetchFallback" /\ "cache_fail" \in Range(log[r])
               /\ Gets(r, "package_ok")) =>
               /\ pc'[r] = "done" /\ outcome'[r] = "ok"
               /\ loc'[r].files \in 1..MaxFiles
         /\ (Gets(r, "delete_fail") \/ Gets(r, "insert_fail")) =>
               /\ pc'[r] = "done" /\ outcome'[r] = "ok"
               /\ loc'[r].files = loc[r].files
               /\ loc'[r].files \in 1..MaxFiles
         /\ (pc'[r] = "done" /\ Range(log'[r]) \cap StorageErrors # {}) =>
               \/ outcome'[r] = "ok"
               \/ outcome'[r] = "not_found" /\ Last(log'[r]) = "package_none"
               \/ outcome'[r] = "error" /\ Last(log'[r]) = "package_fail"]_vars

\* a request whose cache lookup failed was answered with fetched files
C16_Witness ==
    \E r \in Slots :
        /\ pc[r] = "done" /\ outcome[r] = "ok"
        /\ "cache_fail" \in Range(log[r]) /\ Last(log[r]) = "package_ok"
        /\ loc[r].files \in 1..MaxFiles

\* how often a request has made a call
Count(calls, e) == Cardinality({i \in DOMAIN calls : calls[i] = e})

\* C17: within one protected request the package service, and each identity
\* endpoint, is called at most once.
C17_NoCallTwice ==
    \A r \in Slots :
        loc[r].kind = "package" =>
            \A e \in {"package", "refresh", "xasu", "xsts"} : Count(log[r], e) <= 1

\* C18: a product-id request whose cache lookup hits is answered in that
\* step with the files of the row the lookup selected; it has called the
\* package service and the cache store not at all, and the table is as it was.
C18_HitAnswersFromCache ==
    [][\A r \in Slots :
         Gets(r, "cache_hit") =>
            /\ pc'[r] = "done" /\ outcome'[r] = "ok"
            /\ \E row \in SelectLatest(cache, toUpperCase(loc[r].identifier)) :
                 loc'[r].files = row.files_data
            /\ cache' = cache
            /\ Range(log'[r]) \cap {"package", "cachePut"} = {}]_vars

\* a product-id request was answered from the row an earlier request stored
C18_Witness ==
    \E r \in Slots :
        /\ pc[r] = "done" /\ outcome[r] = "ok" /\ Last(log[r]) = "cache_hit"
        /\ Len(cache) = 1 /\ loc[r].files = cache[1].files_data

\* C19: a request that loads an expired bundle with a refresh token calls
\* refresh whatever other requests are doing, and a refresh that succeeds
\* persists the bundle merged from what that request had loaded, whatever
\* token.json holds by then: the last save is what stays.
C19_ConcurrentRefreshLastWriteWins ==
    [][\A r \in Slots :
         /\ (Loads(r) /\ file # NoFile /\ needsTokenRefresh(file, now)
               /\ Truthy(file.refresh_token)) =>
               /\ pc'[r] = "refresh"
               /\ loc'[r].tokens = file
               /\ Last(log'[r]) = "refresh"
         /\ RefreshSucceeds(r) =>
               file' = saveTokens(MergeRefresh(loc[r].tokens, loc'[r].tokenData), now)]_vars

\* two requests in flight have both refreshed with the refresh token of the
\* bundle they loaded and got different access tokens; token.json holds
\* the later one
C19_Witness ==
    \E r, q \in Slots :
        /\ r # q
        /\ pc[r] = "xasu" /\ pc[q] = "xasu"
        /\ "refresh_ok" \in Range(log[r]) /\ "refresh_ok" \in Range(log[q])
        /\ loc[r].tokens.refresh_token = loc[q].tokens.refresh_token
        /\ loc[r].tokens.refresh_token # 0
        /\ loc[r].tokens.access_token < loc[q].tokens.access_token
        /\ "refresh_token" \notin loc[r].tokenData.has
        /\ "refresh_token" \notin loc[q].tokenData.has
        /\ file # NoFile /\ file.access_token = loc[q].tokens.access_token

\* C20: every request that has been received is eventually answered, even
\* if a network call it awaits is never answered.
C20_EveryRequestAnswered ==
    \A r \in Slots : (pc[r] \notin {"idle", "done"}) ~> (pc[r] = "done")

\* C21: a request whose identifier is neither 36 characters of hex digits
\* and dashes nor at least 8 letters, digits and dots is answered 400 in the
\* step it is received, with no call made, token.json neither read nor
\* written and the cache untouched.
C21_InvalidIdentifierRefused ==
    [][\A r \in Slots :
         (/\ Fresh(r)
          /\ probe.fn = "identifier"
          /\ ~(probe.identifier.len = 36
                 /\ probe.identifier.chars \subseteq {"hex", "dash"})
          /\ ~(probe.identifier.len >= 8
                 /\ probe.identifier.chars \subseteq {"hex", "alpha", "dot"})) =>
            /\ pc'[r] = "done" /\ outcome'[r] = "invalid_identifier"
            /\ log'[r] = <<>>
            /\ file' = file /\ cache' = cache /\ issued' = issued]_vars

\* a seven-character identifier was refused while a bundle was stored
C21_Witness ==
    \E r \in Slots :
        /\ probe.fn = "identifier" /\ probe.identifier.len = 7
        /\ pc[r] = "done" /\ outcome[r] = "invalid_identifier" /\ log[r] = <<>>
        /\ file # NoFile

\* C22: when fetchPackageInfo reports no package the request is answered
\* 404 in that step; it makes no further call and the cache is as it was.
C22_NoPackageIsNotFound ==
    [][\A r \in Slots :
         Gets(r, "package_none") =>
            /\ pc'[r] = "done" /\ outcome'[r] = "not_found"
            /\ Last(log'[r]) = "package_none"
            /\ "cachePut" \notin Range(log'[r])
            /\ cache' = cache]_vars

\* a product-id request missed the cache, found no package and was refused,
\* the cache staying empty
C22_Witness ==
    \E r \in Slots :
        /\ pc[r] = "done" /\ outcome[r] = "not_found"
        /\ "cache_miss" \in Range(log[r]) /\ Last(log[r]) = "package_none"
        /\ Count(log[r], "package") = 1
        /\ cache = <<>>

\* C23: a request for the root path is let through, and so is every request
\* in public mode; in private mode a request for another path is let
\* through exactly when a password is configured and the Authorization
\* header is "Bearer " followed by that password, and is answered 401
\* otherwise, so always when no password is configured.
C23_PrivateModeNeedsPassword ==
    (probe.fn = "authMiddleware" /\ probe.result # "pending") =>
        /\ probe.result \in {"next", "401"}
        /\ probe.path = "/" => probe.result = "next"
        /\ probe.publicMode => probe.result = "next"
        /\ (~probe.publicMode /\ probe.path # "/") =>
              /\ probe.result = "next" <=>
                    /\ probe.authPassword # ""
                    /\ probe.authHeader.present
                    /\ probe.authHeader.prefix = "Bearer "
                    /\ probe.authHeader.rest = probe.authPassword
              /\ probe.authPassword = "" => probe.result = "401"

\* in private mode a request with another scheme and the right password was
\* refused
C23_Witness ==
    /\ probe.fn = "authMiddleware" /\ probe.result = "401"
    /\ ~probe.publicMode /\ probe.path = "/msixvc/9WZDNCRFJ3TJ"
    /\ probe.authPassword = "secret"
    /\ probe.authHeader.present /\ probe.authHeader.rest = "secret"

\* the positions in log'[r] of the events request r adds in this step
Appended(r) ==
    IF Fresh(r) THEN DOMAIN log'[r]
    ELSE IF pc[r] \in {"idle", "done"} THEN {}
    ELSE Len(log[r]) + 1..Len(log'[r])

\* the positions of the saves request r makes in this step
NewSaves(r) == {i \in Appended(r) : log'[r][i] = "save"}

\* the callback r is answered with a failure in this step
CallbackFails(r) ==
    \/ /\ pc[r] \in {"exchange", "cb_xasu", "cb_xsts"}
       /\ outcome'[r] \in {"cb_exchange_failed", "cb_missing_token", "cb_auth_failed"}
    \/ Fresh(r) /\ outcome'[r] = "cb_missing_token"

\* C24: token.json is never removed once it exists; it changes only in a
\* step where a request saves right after a successful refresh, or right
\* after a successful security authentication that followed a successful
\* user authentication (and, in a callback given a code, a successful code
\* exchange); a callback that fails leaves it as it was.
C24_StoreOnlyOverwrittenAfterSuccess ==
    [][/\ file # NoFile => file' # NoFile
       /\ file' # file =>
            \E r \in Slots : \E i \in NewSaves(r) :
               /\ i > 1
               /\ \/ log'[r][i - 1] = "refresh_ok"
                  \/ /\ log'[r][i - 1] = "xsts_ok"
                     /\ "xasu_ok" \in Range(log'[r])
                     /\ "exchange" \in Range(log'[r]) => "exchange_ok" \in Range(log'[r])
       /\ \A r \in Slots : CallbackFails(r) => file' = file]_vars

\* one callback has replaced the stored bundle, and another has failed at
\* the security authentication
C24_Witness ==
    \E r, q \in Slots :
       /\ outcome[r] = "cb_ok" /\ outcome[q] = "cb_auth_failed"
       /\ "xsts_fail" \in Range(log[q])
       /\ file # NoFile

CacheOrPackageCalls == {"cacheGet", "package", "cachePut"}

\* every cache or package call made after a successful refresh has a
\* successful user and then security authentication in between
ReauthBetween(calls) ==
    \A i, j \in DOMAIN calls :
       (i < j /\ calls[i] = "refresh_ok" /\ calls[j] \in CacheOrPackageCalls) =>
          \E a, b \in i + 1..j - 1 :
             a < b /\ calls[a] = "xasu_ok" /\ calls[b] = "xsts_ok"

\* the re-authentication that follows the refresh of request r succeeds in
\* this step
ReauthAfterRefreshSucceeds(r) ==
    /\ pc[r] = "xsts" /\ "xsts_ok" \in Range(log'[r])
    /\ "refresh_ok" \in Range(log[r])

\* C25: a successful refresh is followed at once by the user
\* authentication call with the access token of the response, no cache or
\* package call is made after it without a successful user and security
\* authentication in between, and when that re-authentication succeeds the
\* request goes on to its lookup and token.json holds the new access token
\* with the user token and the xsts derived from it.
C25_RefreshThenReauth ==
    [][\A r \in Slots :
         /\ ReauthBetween(log'[r])
         /\ RefreshSucceeds(r) =>
               /\ pc'[r] = "xasu" /\ Last(log'[r]) = "xasu"
               /\ loc'[r].tokens.access_token = issued'
               /\ loc'[r].tokenData.val.access_token = issued'
         /\ (pc[r] = "xasu" /\ pc'[r] = "xsts" /\ "refresh_ok" \in Range(log[r])) =>
               /\ loc'[r].userToken = authenticateXASU(loc[r].tokens.access_token)
               /\ loc'[r].tokens.access_token = loc[r].tokens.access_token
         /\ ReauthAfterRefreshSucceeds(r) =>
               /\ pc'[r] \in {"cacheGet", "fetch"}
               /\ Last(log'[r]) \in {"cacheGet", "package"}
               /\ file'.access_token = loc[r].tokens.access_token
               /\ file'.userToken = authenticateXASU(loc[r].tokens.access_token)
               /\ file'.xsts # NullXsts
               /\ file'.xsts.Token = file'.userToken
               /\ loc'[r].xsts = file'.xsts]_vars

\* a request refreshed, re-authenticated and went on to its lookup, and
\* token.json holds its new access token and both derived tokens
C25_Witness ==
    \E r \in Slots :
       /\ pc[r] \in {"cacheGet", "fetch"}
       /\ "refresh_ok" \in Range(log[r]) /\ "xsts_ok" \in Range(log[r])
       /\ file # NoFile /\ file.access_token > 1
       /\ file.userToken = file.access_token /\ file.xsts = loc[r].xsts

\* each successful refresh and each successful security authentication in
\* calls is followed at once by a save
SavedAtOnce(calls) ==
    \A i \in DOMAIN calls :
       calls[i] \in {"refresh_ok", "xsts_ok"} =>
          i < Len(calls) /\ calls[i + 1] = "save"

\* the bundle with its refreshed mark left out
Persisted(tokens) == [tokens EXCEPT !.refreshed = 0]

\* C26: a successful refresh saves the merged bundle before
\* refreshTokensIfNeeded returns it, and a successful re-authentication
\* saves the bundle with the new user token and xsts before the request
\* makes a cache or package call or is answered.
C26_SaveBeforeGoingOn ==
    [][\A r \in Slots :
         /\ SavedAtOnce(log'[r])
         /\ RefreshSucceeds(r) =>
               /\ file' # NoFile
               /\ Persisted(file') = Persisted(loc'[r].tokens)
               /\ loc'[r].tokens.refreshed = 1
         /\ (pc[r] = "xsts" /\ "xsts_ok" \in Range(log'[r])) =>
               /\ file' # NoFile
               /\ file'.userToken = loc[r].userToken
               /\ file'.access_token = loc[r].tokens.access_token
               /\ file'.xsts = loc'[r].xsts
               /\ pc'[r] # "done" /\ outcome'[r] = "none"
               /\ \E i \in Appended(r) :
                     /\ log'[r][i] = "save"
                     /\ \A j \in DOMAIN log'[r] :
                           log'[r][j] \in CacheOrPackageCalls => i < j]_vars

\* a request has saved twice, after its refresh and after its
\* re-authentication, and is now waiting for its lookup
C26_Witness ==
    \E r \in Slots :
       /\ pc[r] \in {"cacheGet", "fetch"}
       /\ Count(log[r], "save") = 2
       /\ Count(log[r], "refresh_ok") = 1 /\ Count(log[r], "xsts_ok") = 1
       /\ file # NoFile /\ file.xsts = loc[r].xsts

\* C27: before a request's first cache or package call its log shows a
\* bundle loaded and every refresh, user authentication and security
\* authentication call it made answered with success; a request refused for
\* missing or failed credentials has made no cache or package call.
C27_TokensResolvedFirst ==
    \A r \in Slots :
       /\ \A j \in DOMAIN log[r] :
             log[r][j] \in CacheOrPackageCalls =>
                /\ \E i \in 1..j - 1 : log[r][i] = "load"
                /\ \A i \in 1..j - 1 :
                      /\ log[r][i] \notin {"load_none", "refresh_fail", "xasu_fail", "xsts_fail"}
                      /\ log[r][i] = "refresh" => log[r][i + 1] = "refresh_ok"
                      /\ log[r][i] = "xasu" => log[r][i + 1] = "xasu_ok"
                      /\ log[r][i] = "xsts" => log[r][i + 1] = "xsts_ok"
       /\ outcome[r] \in {"not_authenticated", "xbox_auth_failed"} =>
             Range(log[r]) \cap CacheOrPackageCalls = {}

\* one request was refused when its user authentication failed after a
\* successful refresh, another has re-authenticated and called the package
\* service
C27_Witness ==
    \E r, q \in Slots :
       /\ outcome[r] = "xbox_auth_failed"
       /\ "refresh_ok" \in Range(log[r]) /\ "xasu_fail" \in Range(log[r])
       /\ "xsts_ok" \in Range(log[q]) /\ "package" \in Range(log[q])
       /\ loc[q].kind # "callback"

\* the locals of a request that does not use the cache: a content id, or a
\* product id whose products data has no LastModifiedDate
Direct(l) == ~l.isProductId \/ ~Truthy(l.lastModifiedDate)

\* C28: a request for a content id, or for a product id without a
\* LastModifiedDate, makes no cache call and never waits for the cache; a
\* store is started only right after a package fetch that followed a cache
\* miss returned files; and the cache changes only in a step of a
\* product-id request with a LastModifiedDate that has started such a store.
C28_CacheOnlyOnProductPath ==
    [][/\ \A r \in Slots :
            /\ (pc'[r] \notin {"idle", "done", "catalog"} /\ Direct(loc'[r])) =>
                  /\ Range(log'[r]) \cap {"cacheGet", "cachePut"} = {}
                  /\ pc'[r] \notin {"cacheGet", "fetchMiss", "cacheDelete", "cacheInsert"}
            /\ (pc[r] \notin {"idle", "done", "catalog"} /\ Direct(loc[r])) =>
                  Range(log'[r]) \cap {"cacheGet", "cachePut"} = {}
            /\ \A i \in Appended(r) :
                  log'[r][i] = "cachePut" =>
                     /\ i > 3
                     /\ log'[r][i - 1] = "package_ok"
                     /\ log'[r][i - 2] = "package"
                     /\ log'[r][i - 3] = "cache_miss"
       /\ cache' # cache =>
            \E r \in Slots :
               /\ pc[r] \in {"cacheDelete", "cacheInsert"}
               /\ ~Direct(loc[r])
               /\ "cachePut" \in Range(log[r])
               /\ log'[r] # log[r]
               /\ Last(log'[r]) \in {"delete_ok", "insert_ok"}]_vars

\* the cache holds a row, and a product-id request without a
\* LastModifiedDate is fetching its package directly
C28_Witness ==
    \E r \in Slots :
       /\ cache # <<>>
       /\ pc[r] = "fetch" /\ loc[r].isProductId /\ ~Truthy(loc[r].lastModifiedDate)
       /\ Range(log[r]) \cap {"cacheGet", "cachePut"} = {}

IdentityCalls == {"refresh", "xasu", "xsts", "exchange"}

\* token.json holds an access token that is not past its expires_at and an
\* xsts that needsXboxTokenRefresh accepts
StoredTokensUsable ==
    /\ file # NoFile
    /\ Truthy(file.access_token)
    /\ ~(Truthy(file.expires_at) /\ now >= file.expires_at)
    /\ file.xsts # NullXsts
    /\ ~needsXboxTokenRefresh(file.xsts, now)

\* C29: a protected request that loads a bundle with a present, unexpired
\* access token and an xsts that needsXboxTokenRefresh accepts goes straight
\* to its cache or package lookup with the stored xsts, without an identity
\* call and without writing token.json, and makes neither in its later steps.
C29_UsableTokensNoIdentityCall ==
    [][\A r \in Slots :
         /\ (Loads(r) /\ StoredTokensUsable) =>
               /\ pc'[r] \in {"cacheGet", "fetch"}
               /\ Last(log'[r]) \in {"cacheGet", "package"}
               /\ loc'[r].xsts = file.xsts
               /\ file' = file
               /\ Range(log'[r]) \cap (IdentityCalls \cup {"save"}) = {}
         /\ (pc[r] \in PackageStages \cup {"cacheDelete", "cacheInsert"}
               /\ log'[r] # log[r]) =>
               /\ file' = file
               /\ \A i \in Appended(r) : log'[r][i] \notin IdentityCalls \cup {"save"}
               /\ pc'[r] \in PackageStages \cup {"cacheDelete", "cacheInsert", "done"}
               /\ pc'[r] # "done" => loc'[r].xsts = loc[r].xsts]_vars

\* after a second, a request found usable tokens and is fetching its
\* package with the stored xsts, having called nothing else
C29_Witness ==
    \E r \in Slots :
       /\ pc[r] = "fetch" /\ log[r] = <<"load", "package">>
       /\ StoredTokensUsable /\ loc[r].xsts = file.xsts
       /\ now > StartTime /\ Truthy(file.expires_at)

\* the user token and xsts of token.json, none when there is no file
Derived(f) == IF f = NoFile THEN <<0, NullXsts>> ELSE <<f.userToken, f.xsts>>

\* C30: authenticateXSTS is called only right after authenticateXASU
\* answered, with the user token that answer carried for the request's
\* access token, and never after authenticateXASU failed; a user token or an
\* xsts is put into token.json only in the step in which authenticateXSTS
\* answers a request whose authenticateXASU had answered, and they are the
\* ones of these two answers.
C30_UserThenSecurity ==
    [][/\ \A r \in Slots :
            /\ \A i \in DOMAIN log'[r] :
                  /\ log'[r][i] = "xsts" =>
                        i > 2 /\ log'[r][i - 1] = "xasu_ok" /\ log'[r][i - 2] = "xasu"
                  /\ log'[r][i] = "xasu_fail" =>
                        i = Len(log'[r]) /\ pc'[r] = "done"
            /\ (pc[r] = "xasu" /\ pc'[r] = "xsts") =>
                  loc'[r].userToken = authenticateXASU(loc[r].tokens.access_token)
            /\ (pc[r] = "cb_xasu" /\ pc'[r] = "cb_xsts") =>
                  loc'[r].userToken = authenticateXASU(loc[r].access_token)
            /\ (pc[r] \in {"xsts", "cb_xsts"} /\ "xsts_ok" \in Range(log'[r])) =>
                  /\ file'.userToken = loc[r].userToken
                  /\ file'.xsts.Token = loc[r].userToken
                  /\ file'.xsts # NullXsts
       /\ (Derived(file') # Derived(file) /\ Derived(file') # <<0, NullXsts>>) =>
            \E r \in Slots :
               /\ pc[r] \in {"xsts", "cb_xsts"}
               /\ "xasu_ok" \in Range(log[r])
               /\ \E i \in Appended(r) : log'[r][i] = "xsts_ok"]_vars

\* one request was refused when its user authentication failed; another,
\* after a refresh, has stored the user token and the xsts of its two calls
C30_Witness ==
    \E r, q \in Slots :
       /\ outcome[r] = "xbox_auth_failed" /\ Last(log[r]) = "xasu_fail"
       /\ pc[q] \in {"cacheGet", "fetch"}
       /\ "refresh_ok" \in Range(log[q]) /\ "xsts_ok" \in Range(log[q])
       /\ file # NoFile /\ Truthy(file.userToken)
       /\ file.xsts.Token = file.userToken /\ file.xsts = loc[q].xsts

\* C31: while token.json keeps the same access token its expires_at stays
\* as it is, in every step but the save of a callback (which installs the
\* access token it was given); so the save after a security
\* re-authentication leaves expires_at unchanged.
C31_ExpiryFixedPerAccessToken ==
    [][(/\ file # NoFile /\ file' # NoFile
        /\ file'.access_token = file.access_token
        /\ ~\E r \in Slots : pc[r] = "cb_xsts" /\ log'[r] # log[r])
       => file'.expires_at = file.expires_at]_vars

\* C32: no step of a protected request replaces the access token of
\* token.json by one that was issued earlier (access tokens are numbered in
\* the order they are issued).
C32_AccessTokenNeverReverts ==
    [][\A r \in Slots :
         (/\ pc[r] \in {"refresh", "xasu", "xsts"} /\ log'[r] # log[r]
          /\ file # NoFile /\ file' # NoFile)
         => file'.access_token >= file.access_token]_vars

\* token.json as a callback given ?access_token= saves it: an access token,
\* no expires_in, no expires_at, no refresh token
StoredWithoutExpiry ==
    /\ file # NoFile
    /\ Truthy(file.access_token)
    /\ ~Truthy(file.expires_in) /\ ~Truthy(file.expires_at)
    /\ ~Truthy(file.refresh_token)

\* C33: a bundle stored without expires_in, expires_at and refresh token
\* needs no refresh at any time; a request that loads it makes no refresh
\* call and is not refused for missing credentials: it goes on to the
\* re-authentication or to its lookup, and the only refusal it can get from
\* there is that of a failed Xbox authentication.
C33_NoExpiryNoRefresh ==
    [][/\ StoredWithoutExpiry => \A t \in Times : ~needsTokenRefresh(file, t)
       /\ \A r \in Slots :
            /\ (Loads(r) /\ StoredWithoutExpiry) =>
                  /\ pc'[r] \in {"xasu", "cacheGet", "fetch"}
                  /\ "refresh" \notin Range(log'[r])
                  /\ outcome'[r] = "none"
            /\ (pc[r] \in {"xasu", "xsts"} /\ "refresh" \notin Range(log[r])) =>
                  /\ "refresh" \notin Range(log'[r])
                  /\ outcome'[r] \in {"none", "xbox_auth_failed"}]_vars

\* a second later, a request that loaded a bundle without expiry has
\* re-authenticated without a refresh and saved it, still without expiry
C33_Witness ==
    \E r \in Slots :
       /\ StoredWithoutExpiry /\ now > StartTime
       /\ pc[r] = "fetch" /\ "xsts_ok" \in Range(log[r])
       /\ log[r][1] = "load" /\ "refresh" \notin Range(log[r])
       /\ file.xsts = loc[r].xsts

\* C34: a lookup whose lastModifiedDate is no date, or for which every row
\* the query may return holds a last_modified_date that is no date, resolves
\* to no data.
C34_UnparseableDateIsMiss ==
    (/\ probe.fn = "cacheService" /\ Resolved(probe.lookup)
     /\ \/ probe.lookup.lastModifiedDate = InvalidDate
        \/ \A row \in SelectLatest(cache, toUpperCase(probe.lookup.productId)) :
              row.last_modified_date = InvalidDate)
    => probe.lookup.result = NoData

\* a row whose cached_at lies more than daysOld days before the database's
\* clock, which reads whole seconds
OlderThan(row, daysOld, t) ==
    LET age == (t - (t % MsPerSecond)) - row.cached_at * MsPerSecond
    IN  \/ age \div MsPerDay > daysOld
        \/ age \div MsPerDay = daysOld /\ age % MsPerDay > 0

\* the DELETE of a pending clearOldCache runs in this step
PurgeResolves == probe.at = "delete" /\ probe'.at = "resolved"

\* C35: when the DELETE of clearOldCache(daysOld) runs, the table is left
\* with, in their order and unchanged, exactly the rows that are then not
\* older than daysOld days, and the call resolves with the number of rows
\* removed; every other step (the call itself, a DELETE that fails, a
\* handler's store, the clock) removes no row and changes none.
C35_ClearOldCacheExact ==
    [][/\ PurgeResolves =>
            /\ cache' = SelectSeq(cache, LAMBDA row : ~OlderThan(row, probe.daysOld, now))
            /\ probe'.changes =
                  Cardinality({i \in DOMAIN cache :
                                 OlderThan(cache[i], probe.daysOld, now)})
            /\ probe'.before = cache
       /\ ~PurgeResolves =>
            /\ Len(cache') >= Len(cache)
            /\ \A i \in DOMAIN cache : cache'[i] = cache[i]]_vars

\* clearOldCache(1) has removed a row stored more than a day ago and kept
\* one stored within the last day
C35_Witness ==
    /\ probe.fn = "clearOldCache" /\ probe.at = "resolved"
    /\ probe.daysOld = 1 /\ probe.changes >= 1
    /\ Len(probe.before) = probe.changes + Len(cache)
    /\ cache # <<>>

====
